---------------------------- MODULE Spec2Model ----------------------------
(***************************************************************************)
(* RoninConnector (src/src/pages/_app.tsx) composed with the example UI    *)
(* message handler (src/example/src/components/Connect.tsx and its         *)
(* bare-uri variant src/unnamed/part_000).                                 *)
(*                                                                         *)
(* One connector instance runs in a browser page.  Every public method and *)
(* every event handler is one action; a method that has to await the       *)
(* pending Relay initialization is suspended in `waiting` and resumed once *)
(* the initialization promise settles.  The wallet extension, the relay    *)
(* provider and the page reload are the environment.                       *)
(***************************************************************************)
EXTENDS Integers, Sequences, FiniteSets, TLC

(***************************************************************************)
(* Bounds of the model.                                                    *)
(***************************************************************************)
MaxWaiting == 1      \* calls suspended on the pending initialization
MaxRecordLen == 2    \* length of the persisted requested-chains list

(***************************************************************************)
(* Chain registry and connector constants.                                 *)
(***************************************************************************)
RoninId == 2020
SaigonId == 2021
ForeignId == SaigonId + 1     \* a chain id of no configured chain

Chains == <<RoninId, SaigonId>>          \* this.chains (ids only)
ChainIdSet == {Chains[i] : i \in 1..Len(Chains)}
AnyChainId == ChainIdSet \cup {ForeignId}

NAMESPACE == "eip155"
ADD_ETH_CHAIN_METHOD == "wallet_addEthereumChain"
SWITCH_ETH_CHAIN_METHOD == "wallet_switchEthereumChain"

(***************************************************************************)
(* Error messages are sequences of words; a regular expression /w1 w2/i is *)
(* a case-insensitive search for the word sequence.                        *)
(***************************************************************************)
Lower(w) ==
  CASE w = "User" -> "user"
    [] w = "Rejected" -> "rejected"
    [] w = "No" -> "no"
    [] w = "Matching" -> "matching"
    [] w = "Key" -> "key"
    [] w = "Request" -> "request"
    [] OTHER -> w

LowerSeq(m) == [i \in 1..Len(m) |-> Lower(m[i])]

\* RegExp.prototype.test with the i flag, for a pattern that is plain words
TestI(pat, m) ==
  \E i \in 1..(Len(m) - Len(pat) + 1) :
     SubSeq(LowerSeq(m), i, i + Len(pat) - 1) = LowerSeq(pat)

UserRejectedRe == <<"user", "rejected">>                   \* /user rejected/i
UserRejectedRequestRe == <<"user", "rejected", "request">> \* /user rejected request/i
NoMatchingKeyRe == <<"No", "matching", "key">>             \* /No matching key/i

\* messages a transport may fail with
Messages ==
  { <<"User", "rejected", "the", "request">>,
    <<"MetaMask:", "User", "Rejected", "Request">>,
    <<"No", "matching", "key">> }

NoErr == [cls |-> "none", msg |-> <<>>]
TypeErr == [cls |-> "TypeError", msg |-> <<"is", "not", "a", "function">>]
InvalidAddressErr == [cls |-> "InvalidAddressError", msg |-> <<"address", "is", "invalid">>]
InitErr == [cls |-> "Error", msg |-> <<"relay", "init", "failed">>]
StorageErr == [cls |-> "SecurityError", msg |-> <<"storage", "denied">>]
ChainNotFoundErr == [cls |-> "SwitchChainError", msg |-> <<"chain", "not", "found", "on", "connector.">>]
NotConnectedErr == [cls |-> "Error", msg |-> <<"Please", "call", "connect()", "before", "enable()">>]
ProviderErr(m) == [cls |-> "ProviderRpcError", msg |-> m]

\* new UserRejectedRequestError(cause), new SwitchChainError(cause)
UserRejectedRequestError(e) == [cls |-> "UserRejectedRequestError", msg |-> e.msg]
SwitchChainError(e) == [cls |-> "SwitchChainError", msg |-> e.msg]

(***************************************************************************)
(* viem helpers.                                                           *)
(***************************************************************************)
Undefined == "undefined"
\* getAddress: checksums a valid address, throws on anything else
GetAddress(a) == IF a \in {"0xab58", "0xAB58", "0xAb58"} THEN "0xAb58" ELSE Undefined
First(accounts) == IF Len(accounts) > 0 THEN accounts[1] ELSE Undefined

RECURSIVE HexDigits(_)
HexDigits(n) == IF n < 16 THEN <<n>> ELSE Append(HexDigits(n \div 16), n % 16)
\* numberToHex: "0x" followed by the hex digits
NumberToHex(n) == [prefix |-> "0x", digits |-> HexDigits(n)]

RECURSIVE DigitsValue(_)
DigitsValue(d) ==
  IF Len(d) = 0 THEN 0 ELSE 16 * DigitsValue(SubSeq(d, 1, Len(d) - 1)) + d[Len(d)]
\* Number(hexString)
HexToNumber(h) == DigitsValue(h.digits)

\* Connector.isChainUnsupported
IsChainUnsupported(id) == id \notin ChainIdSet

(***************************************************************************)
(* JavaScript values carried by the display_uri payload and the UI state.  *)
(***************************************************************************)
JSUndefined == [t |-> "undefined"]
JSString(v) == [t |-> "string", v |-> v]
JSBoolean(b) == [t |-> "boolean", b |-> b]
JSObject(uri, mob) == [t |-> "object", uri |-> JSString(uri), mobile |-> JSBoolean(mob)]

\* property read x.k: undefined on a string primitive
Prop(x, k) == IF x.t = "object" THEN x[k] ELSE JSUndefined
Truthy(x) ==
  CASE x.t = "string" -> x.v # ""
    [] x.t = "boolean" -> x.b
    [] x.t = "object" -> TRUE
    [] OTHER -> FALSE

\* setUri calls of the two variants of the example UI: Connect.tsx and the
\* bare-uri variant; NotSet when the handler did not call setUri
NotSet == [t |-> "notset"]
NoUi == [structured |-> NotSet, bare |-> NotSet]

Uris == {"", "wc:abc"}
RedirectUrl(uri) == <<"https://wallet.roninchain.com/auth-connect?uri=", uri>>
NoRedirect == <<>>

(***************************************************************************)
(* State.                                                                  *)
(***************************************************************************)
VARIABLES
  ronin,               \* window.ronin is present
  roninOn,             \* window.ronin.provider.on is defined
  session,             \* the relay provider's session (durable in the relay layer)
  shimDisconnect,      \* this.options.shimDisconnect
  mobile,              \* const mobile = isMobile()
  isExtension,         \* this.#isExtension
  provider,            \* this.#provider is defined
  initProviderPromise, \* this.#initProviderPromise
  initStarted,         \* #initProvider invocations of this instance
  acquired,            \* getProvider() has been called on this instance
  constructed,         \* relay providers EthereumProvider.init constructed for it
  shimFlag,            \* storage item `${id}.shimDisconnect` exists
  requestedChains,     \* storage item requestedChains (absent = <<>>)
  injListeners,        \* handlers subscribed on window.ronin.roninEvent
  relayListeners,      \* handlers subscribed on this.#provider
  waiting,             \* calls awaiting the initialization promise
  last,                \* the call or handler that completed last
  emitted,             \* events it emitted, in order
  requests,            \* transport calls it issued, in order
  redirect,            \* window.open target it navigated to
  ui                   \* what the example UI's handlers passed to setUri

config == <<shimDisconnect, mobile>>
vars == <<ronin, roninOn, session, shimDisconnect, mobile, isExtension,
          provider, initProviderPromise, initStarted, acquired, constructed,
          shimFlag, requestedChains, injListeners, relayListeners, waiting, last,
          emitted, requests, redirect, ui>>

\* a session's namespaces: CAIP-2 chains "eip155:<id>" and the methods
Caip(id) == <<NAMESPACE, id>>
NoSession == [live |-> FALSE, chains |-> {}, methods |-> {}]
\* namespaces a wallet may approve in the handshake
Sessions ==
  { [live |-> TRUE, chains |-> {Caip(RoninId)},
     methods |-> {"eth_sendTransaction", ADD_ETH_CHAIN_METHOD}],
    [live |-> TRUE, chains |-> {Caip(RoninId)}, methods |-> {"eth_sendTransaction"}] }

Settled == {"fulfilled", "rejected"}

NoVal == [none |-> TRUE]
NoCall == [op |-> "none", chainId |-> 0, uri |-> "", status |-> "none",
           val |-> NoVal, err |-> NoErr, caught |-> FALSE, branch |-> "none",
           resumed |-> FALSE]

\* the part of the state a call reads and writes while it runs
Cur ==
  [ roninOn |-> roninOn, isExtension |-> isExtension,
    initProviderPromise |-> initProviderPromise, initStarted |-> initStarted,
    acquired |-> acquired,
    shimFlag |-> shimFlag, requestedChains |-> requestedChains,
    injListeners |-> injListeners, relayListeners |-> relayListeners,
    session |-> session, emitted |-> <<>>, requests |-> <<>>,
    redirect |-> NoRedirect, ui |-> NoUi ]

Commit(s) ==
  /\ roninOn' = s.roninOn
  /\ isExtension' = s.isExtension
  /\ initProviderPromise' = s.initProviderPromise
  /\ initStarted' = s.initStarted
  /\ acquired' = s.acquired
  /\ shimFlag' = s.shimFlag
  /\ requestedChains' = s.requestedChains
  /\ injListeners' = s.injListeners
  /\ relayListeners' = s.relayListeners
  /\ session' = s.session
  /\ emitted' = s.emitted
  /\ requests' = s.requests
  /\ redirect' = s.redirect
  /\ ui' = s.ui

\* this.emit(...)
Emit(s, e) == [s EXCEPT !.emitted = Append(@, e)]

(***************************************************************************)
(* Transport responses.  A call ends at the first transport failure, so an *)
(* oracle names the one transport call that fails (0: none) and its        *)
(* message, and the values the wallet answers with.                        *)
(***************************************************************************)
AccountLists == {<<>>, <<"0xab58">>}
WalletChains == {RoninId, ForeignId}
Oracle(k, m, a, c, ss, sf) ==
  [failAt |-> k, msg |-> m, accounts |-> a, chain |-> c, session |-> ss,
   storageFails |-> sf]
AllGood == Oracle(0, <<>>, <<"0xab58">>, RoninId, NoSession, FALSE)
\* the k-th transport call of the operation fails, k in 1..n
Failing(n) == {[AllGood EXCEPT !.failAt = k, !.msg = m] : k \in 1..n, m \in Messages}
\* the oracles that make a difference to an operation
Oracles(op) ==
  CASE op = "connect" ->
         {[AllGood EXCEPT !.accounts = a, !.chain = c, !.session = ss]
            : a \in AccountLists, c \in WalletChains, ss \in Sessions}
         \cup {[x EXCEPT !.session = ss] : x \in Failing(3), ss \in Sessions}
    [] op = "disconnect" -> {AllGood} \cup Failing(1)
    [] op \in {"getAccount", "onAccountsChanged"} ->
         {[AllGood EXCEPT !.accounts = a] : a \in AccountLists} \cup Failing(1)
    [] op \in {"getChainId", "onChainChanged"} ->
         {[AllGood EXCEPT !.chain = c] : c \in WalletChains} \cup Failing(1)
    [] op = "isAuthorized" ->
         {[AllGood EXCEPT !.accounts = a, !.storageFails = sf]
            : a \in AccountLists, sf \in BOOLEAN} \cup Failing(1)
    [] op = "switchChain" -> {AllGood} \cup Failing(2)
    [] OTHER -> {AllGood}

\* provider.request / connect / enable / disconnect on what getProvider
\* returned.  Calling through undefined, or a relay method the injected
\* EIP1193Provider does not have, is a TypeError; the relay provider rejects a
\* disconnect() when it holds no session.  The log keeps, with each call, how
\* many events the operation had emitted before it.
Transport(s, prov, method, o) ==
  IF prov = "none" \/ (prov = "injected" /\ method \in {"connect", "enable", "disconnect"})
  THEN [s |-> s, ok |-> FALSE, err |-> TypeErr]
  ELSE LET s1 == [s EXCEPT !.requests = Append(@, [to |-> prov, method |-> method,
                                                     seen |-> Len(s.emitted)])]
       IN  IF prov = "relay" /\ method = "disconnect" /\ ~s.session.live
           THEN [s |-> s1, ok |-> FALSE, err |-> NotConnectedErr]
           ELSE IF o.failAt = Len(s1.requests)
           THEN [s |-> s1, ok |-> FALSE, err |-> ProviderErr(o.msg)]
           ELSE [s |-> s1, ok |-> TRUE, err |-> NoErr]

(***************************************************************************)
(* Provider acquisition.                                                   *)
(***************************************************************************)
\* #createProvider: the initialization is memoized in #initProviderPromise
NeedsInitNoMemo(s) == ~provider
NeedsInit(s) == s.initProviderPromise = "none"
CreateProvider(s) ==
  IF NeedsInit(s)
  THEN [s EXCEPT !.initProviderPromise = "pending", !.initStarted = @ + 1]
  ELSE s

\* what `await this.#createProvider(); return this.#provider!` yields once
\* the promise has settled
AfterInit(s) ==
  IF s.initProviderPromise = "rejected" THEN [s |-> s, kind |-> "throw"]
  ELSE [s |-> s, kind |-> IF provider THEN "relay" ELSE "none"]

\* getProvider() without chainId
GetProvider(s) ==
  IF ronin
  THEN IF s.roninOn
       THEN [s |-> [s EXCEPT !.acquired = TRUE], kind |-> "injected"]
       ELSE [s |-> [s EXCEPT !.roninOn = TRUE, !.isExtension = TRUE, !.acquired = TRUE],
             kind |-> "injected"]
  ELSE LET s1 == [s EXCEPT !.isExtension = FALSE, !.acquired = TRUE]
       IN  IF provider THEN [s |-> s1, kind |-> "relay"]
           ELSE LET s2 == CreateProvider(s1)
                IN  IF s2.initProviderPromise = "pending"
                    THEN [s |-> s2, kind |-> "wait"]
                    ELSE AfterInit(s2)

\* how a call ends: resolved with a value, rejected with an error, or
\* suspended on the initialization promise
Ok(s, v) ==
  [s |-> s, status |-> "ok", val |-> v, err |-> NoErr, caught |-> FALSE, branch |-> "none"]
Throw(s, e) ==
  [s |-> s, status |-> "error", val |-> NoVal, err |-> e, caught |-> FALSE, branch |-> "none"]
Suspended(s) ==
  [s |-> s, status |-> "wait", val |-> NoVal, err |-> NoErr, caught |-> FALSE, branch |-> "none"]
Branch(r, ext) == [r EXCEPT !.branch = IF ext THEN "injected" ELSE "relay"]

(***************************************************************************)
(* Private helpers of the connector.                                       *)
(***************************************************************************)
\* #removeListeners
RemoveListeners(s) == IF ~provider THEN s ELSE [s EXCEPT !.relayListeners = FALSE]

\* #setupListeners
SetupListeners(s) ==
  IF ~provider THEN s ELSE [RemoveListeners(s) EXCEPT !.relayListeners = TRUE]

\* #setRequestedChainsIds / #getRequestedChainsIds
SetRequestedChainsIds(s, chains) == [s EXCEPT !.requestedChains = chains]
GetRequestedChainsIds(s) == s.requestedChains

\* #getNamespaceChainsIds: parseInt(chain.split(':')[1]) of the eip155 chains
GetNamespaceChainsIds(s) ==
  IF ~provider THEN {}
  ELSE IF ~s.session.live THEN {}
  ELSE {c[2] : c \in {x \in s.session.chains : x[1] = NAMESPACE}}

\* #getNamespaceMethods
GetNamespaceMethods(s) ==
  IF ~provider THEN {}
  ELSE IF ~s.session.live THEN {}
  ELSE s.session.methods

(***************************************************************************)
(* Emitted events and the example UI's handler of `message`.               *)
(***************************************************************************)
Connecting == [name |-> "message", type |-> "connecting", data |-> JSUndefined]
DisplayUri(d) == [name |-> "message", type |-> "display_uri", data |-> d]
ChangeNoAccount == [name |-> "change", account |-> Undefined]
ChangeAccount(a) == [name |-> "change", account |-> a]
ChangeChain(id) == [name |-> "change", chain |-> [id |-> id, unsupported |-> IsChainUnsupported(id)]]
DisconnectEvt == [name |-> "disconnect"]
ConnectEvt(d) == [name |-> "connect", data |-> d]

\* Connect.tsx: const { mobile, uri } = args.data; if (mobile) return; setUri(uri)
UiStructured(s, e) ==
  IF e.type = "display_uri"
  THEN IF Truthy(Prop(e.data, "mobile")) THEN s
       ELSE [s EXCEPT !.ui.structured = Prop(e.data, "uri")]
  ELSE s

\* part_000: setUri(args.data as string)
UiBare(s, e) ==
  IF e.type = "display_uri" THEN [s EXCEPT !.ui.bare = e.data] ELSE s

\* either variant is a listener of the same `message` event
UiOnMessage(s, e) == UiBare(UiStructured(s, e), e)

\* this.emit('message', ...): the UI's listener runs inside emit
EmitMessage(s, e) == UiOnMessage(Emit(s, e), e)

\* { uri && <QRCode value={uri} /> } after setUri(x)
QrShown(x) == x.t # "notset" /\ Truthy(x)

(***************************************************************************)
(* getChainId, getAccount.                                                 *)
(***************************************************************************)
GetChainIdWith(s, prov, o) ==
  IF ~s.isExtension
  THEN CASE prov = "none" -> Throw(s, TypeErr)
         [] prov = "injected" -> Ok(s, [id |-> 0])     \* no chainId field: undefined
         [] OTHER -> Ok(s, [id |-> o.chain])
  ELSE LET t == Transport(s, prov, "eth_chainId", o)
       IN  IF ~t.ok THEN Throw(t.s, t.err)
           ELSE Ok(t.s, [id |-> HexToNumber(NumberToHex(o.chain))])

GetChainIdFrom(g, o) ==
  CASE g.kind = "wait" -> Suspended(g.s)
    [] g.kind = "throw" -> Throw(g.s, InitErr)
    [] OTHER -> GetChainIdWith(g.s, g.kind, o)

\* getChainId() called from inside connect or a handler.  The acquisition
\* cannot suspend there (NestedAcquisitionNeverWaits): the caller holds a
\* provider already, so the initialization has settled or ronin is present.
NestedWaitErr == [cls |-> "NestedWait", msg |-> <<>>]
GetChainId(s, o) ==
  LET r == GetChainIdFrom(GetProvider(s), o)
  IN  IF r.status = "wait" THEN Throw(r.s, NestedWaitErr) ELSE r

GetAccountWith(s, prov, o) ==
  IF ~s.isExtension
  THEN CASE prov = "none" -> Throw(s, TypeErr)
         [] prov = "injected" -> Throw(s, TypeErr)     \* no accounts field
         [] OTHER ->
              LET a == GetAddress(First(IF s.session.live THEN o.accounts ELSE <<>>))
              IN  IF a = Undefined THEN Throw(s, InvalidAddressErr)
                  ELSE Ok(s, [account |-> a])
  ELSE LET t == Transport(s, prov, "eth_accounts", o)
           a == GetAddress(First(o.accounts))
       IN  IF ~t.ok THEN Throw(t.s, t.err)
           ELSE IF a = Undefined THEN Throw(t.s, InvalidAddressErr)
           ELSE Ok(t.s, [account |-> a])

GetAccountFrom(g, o) ==
  CASE g.kind = "wait" -> Suspended(g.s)
    [] g.kind = "throw" -> Throw(g.s, InitErr)
    [] OTHER -> GetAccountWith(g.s, g.kind, o)

(***************************************************************************)
(* connect                                                                 *)
(***************************************************************************)
ConnectResult(account, id) ==
  [account |-> account, chain |-> [id |-> id, unsupported |-> IsChainUnsupported(id)]]

ConnectInjectedFlagFirst(s, prov, o) ==
  LET s1 == [s EXCEPT !.injListeners = IF ronin THEN TRUE ELSE @,
                      !.shimFlag = IF shimDisconnect THEN TRUE ELSE @]
      t == Transport(s1, prov, "eth_requestAccounts", o)
      s2 == EmitMessage(t.s, Connecting)
      account == GetAddress(First(o.accounts))
      c == GetChainId(s2, o)
      result == ConnectResult(account, c.val.id)
  IN  IF ~t.ok THEN Throw(s2, t.err)
      ELSE IF account = Undefined THEN Throw(s2, InvalidAddressErr)
      ELSE IF c.status # "ok" THEN c
      ELSE Ok(Emit(c.s, ConnectEvt(result)), result)
\* the branch taken when this.#isExtension holds
ConnectInjected(s, prov, o) ==
  LET s1 == [s EXCEPT !.injListeners = IF ronin THEN TRUE ELSE @]
      s2 == EmitMessage(s1, Connecting)
      t == Transport(s2, prov, "eth_requestAccounts", o)
      account == GetAddress(First(o.accounts))
      c == GetChainId(t.s, o)
      s3 == [c.s EXCEPT !.shimFlag = IF shimDisconnect THEN TRUE ELSE @]
      result == ConnectResult(account, c.val.id)
  IN  IF ~t.ok THEN Throw(t.s, t.err)
      ELSE IF account = Undefined THEN Throw(t.s, InvalidAddressErr)
      ELSE IF c.status # "ok" THEN c
      ELSE Ok(Emit(s3, ConnectEvt(result)), result)

ConnectHandshakeAlways(s, prov, o) ==
  LET t == Transport(EmitMessage(s, Connecting), prov, "connect", o)
  IN  IF ~t.ok THEN t
      ELSE [t EXCEPT !.s = SetRequestedChainsIds([t.s EXCEPT !.session = o.session],
                                                 Chains)]
\* the handshake of the Relay branch: only without a live session
ConnectHandshake(s, prov, o) ==
  IF prov = "relay" /\ s.session.live
  THEN [s |-> s, ok |-> TRUE, err |-> NoErr]
  ELSE LET t == Transport(EmitMessage(s, Connecting), prov, "connect", o)
       IN  IF ~t.ok THEN t
           ELSE [t EXCEPT !.s = SetRequestedChainsIds([t.s EXCEPT !.session = o.session],
                                                      Chains)]

\* the branch taken when this.#isExtension does not hold
ConnectRelay(s, prov, o) ==
  LET s1 == SetupListeners(s)
      h == ConnectHandshake(s1, prov, o)
      e == Transport(h.s, prov, "enable", o)
      account == GetAddress(First(o.accounts))
      c == GetChainId(e.s, o)
  IN  IF prov = "none" THEN Throw(s1, TypeErr)       \* undefined.session
      ELSE IF ~h.ok THEN Throw(h.s, h.err)
      ELSE IF ~e.ok THEN Throw(e.s, e.err)
      ELSE IF account = Undefined THEN Throw(e.s, InvalidAddressErr)
      ELSE IF c.status # "ok" THEN c
      ELSE Ok(c.s, ConnectResult(account, c.val.id))

ConnectTry(g, o) ==
  IF g.kind = "throw" THEN Throw(g.s, InitErr)
  ELSE IF g.s.isExtension THEN Branch(ConnectInjected(g.s, g.kind, o), TRUE)
  ELSE Branch(ConnectRelay(g.s, g.kind, o), FALSE)

\* catch (error): /user rejected/i becomes UserRejectedRequestError
ConnectCatch(r) ==
  IF r.status = "error" /\ TestI(UserRejectedRe, r.err.msg)
  THEN [r EXCEPT !.err = UserRejectedRequestError(r.err)]
  ELSE r

ConnectFrom(g, o) ==
  IF g.kind = "wait" THEN Suspended(g.s) ELSE ConnectCatch(ConnectTry(g, o))

(***************************************************************************)
(* disconnect                                                              *)
(***************************************************************************)
DisconnectTry(s, prov, o) ==
  IF s.isExtension
  THEN LET s1 == [s EXCEPT !.injListeners = IF ronin THEN FALSE ELSE @]
           s2 == Emit(Emit(s1, ChangeNoAccount), DisconnectEvt)
       IN  Ok([s2 EXCEPT !.shimFlag = IF shimDisconnect THEN FALSE ELSE @], NoVal)
  ELSE LET t == Transport(s, prov, "disconnect", o)
       IN  IF ~t.ok THEN Throw(t.s, t.err)
           ELSE Ok(Emit(Emit([t.s EXCEPT !.session = NoSession], ChangeNoAccount),
                        DisconnectEvt), NoVal)

DisconnectCatchNothing(r) == r
\* catch (error): only /No matching key/i is swallowed
DisconnectCatch(r) ==
  IF r.status = "error" /\ TestI(NoMatchingKeyRe, r.err.msg)
  THEN [r EXCEPT !.status = "ok", !.err = NoErr, !.caught = TRUE]
  ELSE r

\* finally
DisconnectFinally(r) ==
  [r EXCEPT !.s = SetRequestedChainsIds(RemoveListeners(r.s), <<>>)]

\* getProvider() is awaited before the try statement
DisconnectFrom(g, o) ==
  CASE g.kind = "wait" -> Suspended(g.s)
    [] g.kind = "throw" -> Throw(g.s, InitErr)
    [] OTHER -> Branch(DisconnectFinally(DisconnectCatch(DisconnectTry(g.s, g.kind, o))),
                       g.s.isExtension)

(***************************************************************************)
(* isAuthorized                                                            *)
(***************************************************************************)
\* const [account] = <address>: the first character of the string
FirstChar(a) == IF a = "" THEN JSUndefined ELSE JSString("0")

IsAuthorizedAccount(r) ==
  IF r.status = "ok"
  THEN Ok(r.s, [authorized |-> Truthy(FirstChar(r.val.account))])
  ELSE r

IsAuthorizedNoCatch(r) == r
\* catch { return false }
IsAuthorizedCatch(r) ==
  IF r.status = "error"
  THEN [r EXCEPT !.status = "ok", !.val = [authorized |-> FALSE], !.err = NoErr,
                 !.caught = TRUE]
  ELSE r

IsAuthorizedFrom(g, o) ==
  IF g.kind = "wait" THEN Suspended(g.s)
  ELSE Branch(IsAuthorizedCatch(IsAuthorizedAccount(GetAccountFrom(g, o))), g.s.isExtension)

\* the shim test comes first and reads #isExtension as the last acquisition left it
IsAuthorizedStart(s, o) ==
  IF shimDisconnect /\ s.isExtension
  THEN IF o.storageFails THEN Branch(IsAuthorizedCatch(Throw(s, StorageErr)), TRUE)
       ELSE IF ~s.shimFlag THEN Branch(Ok(s, [authorized |-> FALSE]), TRUE)
       ELSE IsAuthorizedFrom(GetProvider(s), o)
  ELSE IsAuthorizedFrom(GetProvider(s), o)

(***************************************************************************)
(* switchChain                                                             *)
(***************************************************************************)
ChainFoundAlways(chainId) == TRUE
\* this.chains.find((chain) => chain.id === chainId)
ChainFound(chainId) == chainId \in ChainIdSet

SwitchChainAddRecordsFirst(s, prov, chainId, o) ==
  IF chainId \notin GetNamespaceChainsIds(s) /\ ADD_ETH_CHAIN_METHOD \in GetNamespaceMethods(s)
  THEN Transport(SetRequestedChainsIds(s, Append(GetRequestedChainsIds(s), chainId)),
                 prov, ADD_ETH_CHAIN_METHOD, o)
  ELSE [s |-> s, ok |-> TRUE, err |-> NoErr]
\* the chain-add request and the record update that follows it
SwitchChainAdd(s, prov, chainId, o) ==
  IF chainId \notin GetNamespaceChainsIds(s) /\ ADD_ETH_CHAIN_METHOD \in GetNamespaceMethods(s)
  THEN LET t == Transport(s, prov, ADD_ETH_CHAIN_METHOD, o)
       IN  IF ~t.ok THEN t
           ELSE [t EXCEPT !.s = SetRequestedChainsIds(
                                  t.s, Append(GetRequestedChainsIds(t.s), chainId))]
  ELSE [s |-> s, ok |-> TRUE, err |-> NoErr]

SwitchChainTry(g, chainId, o) ==
  LET a == SwitchChainAdd(g.s, g.kind, chainId, o)
      t == Transport(a.s, g.kind, SWITCH_ETH_CHAIN_METHOD, o)
  IN  IF g.kind = "throw" THEN Throw(g.s, InitErr)
      ELSE IF ~a.ok THEN Throw(a.s, a.err)
      ELSE IF ~t.ok THEN Throw(t.s, t.err)
      ELSE Ok(t.s, [chain |-> chainId])

\* catch (error): /user rejected request/i, else SwitchChainError
SwitchChainCatch(r) ==
  IF r.status = "error"
  THEN IF TestI(UserRejectedRequestRe, r.err.msg)
       THEN [r EXCEPT !.err = UserRejectedRequestError(r.err)]
       ELSE [r EXCEPT !.err = SwitchChainError(r.err)]
  ELSE r

SwitchChainFrom(g, chainId, o) ==
  IF g.kind = "wait" THEN Suspended(g.s)
  ELSE Branch(SwitchChainCatch(SwitchChainTry(g, chainId, o)), g.s.isExtension)

SwitchChainStart(s, chainId, o) ==
  IF ~ChainFound(chainId) THEN Throw(s, ChainNotFoundErr)
  ELSE SwitchChainFrom(GetProvider(s), chainId, o)

(***************************************************************************)
(* Event handlers.                                                         *)
(***************************************************************************)
\* onAccountsChanged: getAccount() resolves with a non-empty address or rejects
OnAccountsChangedFrom(g, o) ==
  LET r == GetAccountFrom(g, o)
  IN  IF r.status # "ok" THEN r
      ELSE IF r.val.account = "" THEN Ok(Emit(r.s, DisconnectEvt), NoVal)
      ELSE Ok(Emit(r.s, ChangeAccount(r.val.account)), NoVal)

\* onChainChanged
OnChainChangedFrom(g, o) ==
  LET r == GetChainIdFrom(g, o)
  IN  IF r.status # "ok" THEN r ELSE Ok(Emit(r.s, ChangeChain(r.val.id)), NoVal)

\* onDisconnect
OnDisconnect(s) == Ok(Emit(SetRequestedChainsIds(s, <<>>), DisconnectEvt), NoVal)

\* onDisplayUri: the payload's data is the uri itself
DisplayUriData(uri) == JSString(uri)
OnDisplayUri(s, uri) ==
  LET s1 == EmitMessage(s, DisplayUri(DisplayUriData(uri)))
  IN  IF mobile /\ uri # ""
      THEN Ok([s1 EXCEPT !.redirect = RedirectUrl(uri)], NoVal)
      ELSE Ok(s1, NoVal)

\* onConnect
OnConnect(s) == Ok(Emit(s, ConnectEvt(NoVal)), NoVal)

GetProviderFrom(g) ==
  CASE g.kind = "wait" -> Suspended(g.s)
    [] g.kind = "throw" -> Throw(g.s, InitErr)
    [] OTHER -> Ok(g.s, [provider |-> g.kind])

(***************************************************************************)
(* A call from its provider acquisition on, and a call from its start.     *)
(***************************************************************************)
Call(op) == [op |-> op, chainId |-> 0, uri |-> ""]

From(c, g, o) ==
  CASE c.op = "connect" -> ConnectFrom(g, o)
    [] c.op = "disconnect" -> DisconnectFrom(g, o)
    [] c.op = "getAccount" -> GetAccountFrom(g, o)
    [] c.op = "getChainId" -> GetChainIdFrom(g, o)
    [] c.op = "getProvider" -> GetProviderFrom(g)
    [] c.op = "isAuthorized" -> IsAuthorizedFrom(g, o)
    [] c.op = "switchChain" -> SwitchChainFrom(g, c.chainId, o)
    [] c.op = "onAccountsChanged" -> OnAccountsChangedFrom(g, o)
    [] c.op = "onChainChanged" -> OnChainChangedFrom(g, o)

Start(c, s, o) ==
  CASE c.op = "isAuthorized" -> IsAuthorizedStart(s, o)
    [] c.op = "switchChain" -> SwitchChainStart(s, c.chainId, o)
    [] c.op = "onDisconnect" -> OnDisconnect(s)
    [] c.op = "onDisplayUri" -> OnDisplayUri(s, c.uri)
    [] c.op = "onConnect" -> OnConnect(s)
    [] OTHER -> From(c, GetProvider(s), o)

Finished(c, r, resumed) ==
  [op |-> c.op, chainId |-> c.chainId, uri |-> c.uri, status |-> r.status,
   val |-> r.val, err |-> r.err, caught |-> r.caught, branch |-> r.branch,
   resumed |-> resumed]

\* the call completes, or is suspended on the pending initialization
Complete(c, r) ==
  /\ Len(r.s.requestedChains) <= MaxRecordLen
  /\ IF r.status = "wait"
     THEN /\ Len(waiting) < MaxWaiting
          /\ waiting' = Append(waiting, c)
          /\ isExtension' = r.s.isExtension
          /\ roninOn' = r.s.roninOn
          /\ initProviderPromise' = r.s.initProviderPromise
          /\ initStarted' = r.s.initStarted
          /\ acquired' = r.s.acquired
          /\ UNCHANGED <<shimFlag, requestedChains, injListeners, relayListeners,
                         session, last, emitted, requests, redirect, ui>>
     ELSE /\ Commit(r.s)
          /\ last' = Finished(c, r, FALSE)
          /\ UNCHANGED waiting
  /\ UNCHANGED <<ronin, provider, constructed, config>>

\* promise continuations are microtasks: they run before any other call or event
\* and so does the continuation of the host that awaited the call
Idle == last.op = "none" /\ ~(waiting # <<>> /\ initProviderPromise \in Settled)

Invoke(c) == \E o \in Oracles(c.op) : Complete(c, Start(c, Cur, o))

(***************************************************************************)
(* Actions: the connector's methods.                                       *)
(***************************************************************************)
Connect == Idle /\ Invoke(Call("connect"))
Disconnect == Idle /\ Invoke(Call("disconnect"))
GetAccount == Idle /\ Invoke(Call("getAccount"))
GetChainIdCall == Idle /\ Invoke(Call("getChainId"))
GetProviderCall == Idle /\ Invoke(Call("getProvider"))
IsAuthorized == Idle /\ Invoke(Call("isAuthorized"))
SwitchChain ==
  /\ Idle
  /\ \E id \in AnyChainId : Invoke([Call("switchChain") EXCEPT !.chainId = id])

\* a suspended call goes on once the initialization promise has settled
Resume ==
  /\ last.op = "none"
  /\ waiting # <<>>
  /\ initProviderPromise \in Settled
  /\ \E o \in Oracles(Head(waiting).op) :
       LET c == Head(waiting)
           r == From(c, AfterInit(Cur), o)
       IN  /\ r.status # "wait"
           /\ Len(r.s.requestedChains) <= MaxRecordLen
           /\ Commit(r.s)
           /\ last' = Finished(c, r, TRUE)
           /\ waiting' = Tail(waiting)
  /\ UNCHANGED <<ronin, provider, constructed, config>>

\* the call's result, its events and its requests have reached the host
Return ==
  /\ last.op # "none"
  /\ last' = NoCall
  /\ emitted' = <<>>
  /\ requests' = <<>>
  /\ redirect' = NoRedirect
  /\ ui' = NoUi
  /\ UNCHANGED <<ronin, roninOn, session, config, isExtension, provider,
                 initProviderPromise, initStarted, acquired, constructed, shimFlag,
                 requestedChains, injListeners, relayListeners, waiting>>

(***************************************************************************)
(* Actions: events the transports deliver to the subscribed handlers.      *)
(***************************************************************************)
InjectedSubscribed == ronin /\ injListeners
RelaySubscribed == provider /\ relayListeners

AccountsChanged ==
  /\ Idle
  /\ InjectedSubscribed \/ RelaySubscribed
  /\ Invoke(Call("onAccountsChanged"))

ChainChanged ==
  /\ Idle
  /\ InjectedSubscribed \/ RelaySubscribed
  /\ Invoke(Call("onChainChanged"))

\* the extension's disconnect event
InjectedDisconnected ==
  /\ Idle
  /\ InjectedSubscribed
  /\ Invoke(Call("onDisconnect"))

\* the relay's disconnect and session_delete events: the session is gone
RelayDisconnected ==
  /\ RelaySubscribed
  /\ Idle
  /\ Complete(Call("onDisconnect"), OnDisconnect([Cur EXCEPT !.session = NoSession]))

DisplayUriEvent ==
  /\ Idle
  /\ RelaySubscribed
  /\ \E u \in Uris : Invoke([Call("onDisplayUri") EXCEPT !.uri = u])

RelayConnected ==
  /\ Idle
  /\ RelaySubscribed
  /\ Invoke(Call("onConnect"))

(***************************************************************************)
(* Actions: the relay initialization started by #createProvider.           *)
(***************************************************************************)
Env == <<ronin, roninOn, session, config>>
Storage == <<shimFlag, requestedChains>>
Observed == <<last, emitted, requests, redirect, ui>>

\* #initProvider runs to its end: the import resolves and, when there is a
\* default chain, EthereumProvider.init constructs this.#provider
InitResolves ==
  /\ Idle
  /\ initProviderPromise = "pending"
  /\ initProviderPromise' = "fulfilled"
  /\ provider' = (Len(Chains) > 0)
  /\ constructed' = IF Len(Chains) > 0 THEN constructed + 1 ELSE constructed
  /\ UNCHANGED <<Env, Storage, Observed, isExtension, initStarted, acquired,
                 injListeners, relayListeners, waiting>>

\* the import or EthereumProvider.init rejects
InitRejects ==
  /\ Idle
  /\ initProviderPromise = "pending"
  /\ initProviderPromise' = "rejected"
  /\ UNCHANGED <<Env, Storage, Observed, isExtension, provider, initStarted,
                 acquired, constructed, injListeners, relayListeners, waiting>>

(***************************************************************************)
(* Actions: the environment.                                               *)
(***************************************************************************)
\* the extension injects window.ronin, with or without provider.on
RoninAppears ==
  /\ Idle
  /\ ~ronin
  /\ ronin' = TRUE
  /\ roninOn' \in BOOLEAN
  /\ UNCHANGED <<session, config, Storage, Observed, isExtension, provider,
                 initProviderPromise, initStarted, acquired, constructed,
                 injListeners, relayListeners, waiting>>

\* window.ronin goes away, and its event target with it
RoninDisappears ==
  /\ Idle
  /\ ronin
  /\ ronin' = FALSE
  /\ roninOn' = FALSE
  /\ injListeners' = FALSE
  /\ UNCHANGED <<session, config, Storage, Observed, isExtension, provider,
                 initProviderPromise, initStarted, acquired, constructed,
                 relayListeners, waiting>>

\* field initializers and constructor
Constructed(r) ==
  /\ isExtension' = r
  /\ provider' = FALSE
  /\ initProviderPromise' = IF r THEN "none" ELSE "pending"
  /\ initStarted' = IF r THEN 0 ELSE 1
  /\ acquired' = FALSE
  /\ constructed' = 0
  /\ injListeners' = FALSE
  /\ relayListeners' = FALSE
  /\ waiting' = <<>>
  /\ last' = NoCall
  /\ emitted' = <<>>
  /\ requests' = <<>>
  /\ redirect' = NoRedirect
  /\ ui' = NoUi

\* the page is loaded again: a new connector over the same storage and the
\* same relay session
Reload ==
  /\ Idle
  /\ Constructed(ronin)
  /\ roninOn' \in (IF ronin THEN BOOLEAN ELSE {FALSE})
  /\ UNCHANGED <<ronin, session, config, Storage>>

Init ==
  /\ ronin \in BOOLEAN
  /\ roninOn \in (IF ronin THEN BOOLEAN ELSE {FALSE})
  /\ session = NoSession
  /\ shimDisconnect \in BOOLEAN
  /\ mobile \in BOOLEAN
  /\ isExtension = ronin
  /\ provider = FALSE
  /\ initProviderPromise = IF ronin THEN "none" ELSE "pending"
  /\ initStarted = IF ronin THEN 0 ELSE 1
  /\ acquired = FALSE
  /\ constructed = 0
  /\ shimFlag = FALSE
  /\ requestedChains = <<>>
  /\ injListeners = FALSE
  /\ relayListeners = FALSE
  /\ waiting = <<>>
  /\ last = NoCall
  /\ emitted = <<>>
  /\ requests = <<>>
  /\ redirect = NoRedirect
  /\ ui = NoUi

Next ==
  \/ Connect
  \/ Disconnect
  \/ GetAccount
  \/ GetChainIdCall
  \/ GetProviderCall
  \/ IsAuthorized
  \/ SwitchChain
  \/ Resume
  \/ Return
  \/ AccountsChanged
  \/ ChainChanged
  \/ InjectedDisconnected
  \/ RelayDisconnected
  \/ DisplayUriEvent
  \/ RelayConnected
  \/ InitResolves
  \/ InitRejects
  \/ RoninAppears
  \/ RoninDisappears
  \/ Reload

Spec == Init /\ [][Next]_vars

(***************************************************************************)
(* Sanity of the model.                                                    *)
(***************************************************************************)
TypeOK ==
  /\ ronin \in BOOLEAN /\ roninOn \in BOOLEAN /\ (roninOn => ronin)
  /\ session \in Sessions \cup {NoSession}
  /\ isExtension \in BOOLEAN /\ provider \in BOOLEAN
  /\ initProviderPromise \in {"none", "pending"} \cup Settled
  /\ shimFlag \in BOOLEAN /\ acquired \in BOOLEAN
  /\ Len(requestedChains) <= MaxRecordLen
  /\ Len(waiting) <= MaxWaiting
  /\ (provider => initProviderPromise = "fulfilled")

NestedAcquisitionNeverWaits == last.err.cls # "NestedWait"

(***************************************************************************)
(* Claims.                                                                 *)
(***************************************************************************)
Redirected == redirect # NoRedirect
DisplayUriEvents == {i \in 1..Len(emitted) : emitted[i].name = "message" /\ emitted[i].type = "display_uri"}

\* C1: switchChain(id) with an id of no configured chain fails with the
\* chain-not-found error, issues no request to the transport and leaves the
\* persisted requested-chains record as it was.
C1_UnknownChainFailsWithoutRequest ==
  [][ (last.op = "none" /\ last'.op = "switchChain" /\ last'.chainId \notin ChainIdSet)
        => /\ last'.status = "error"
           /\ last'.err = ChainNotFoundErr
           /\ requests' = <<>>
           /\ requestedChains' = requestedChains ]_vars

C1_Witness ==
  /\ last.op = "switchChain" /\ last.chainId = ForeignId
  /\ last.err = ChainNotFoundErr
  /\ requestedChains # <<>>
  /\ provider /\ session.live

\* C2: after a disconnect() that resolved, the requested-chains record is
\* empty and the shim-disconnect flag is absent from storage, on either
\* transport.
C2_DisconnectClearsRecordAndFlag ==
  (last.op = "disconnect" /\ last.status = "ok")
    => (requestedChains = <<>> /\ ~shimFlag)

\* C3: a connector instance starts the relay initialization at most once and
\* constructs at most one relay provider, however many callers arrive while
\* the initialization is pending.
C3_SingleInitialization == initStarted <= 1 /\ constructed <= 1

C3_Witness ==
  /\ Len(waiting) = MaxWaiting
  /\ initProviderPromise = "pending"
  /\ initStarted = 1

\* C4: isAuthorized() always resolves with a boolean, and with false whenever
\* the provider acquisition, the storage read or the account query failed.
C4_IsAuthorizedNeverRaises ==
  last.op = "isAuthorized"
    => /\ last.status = "ok"
       /\ last.val.authorized \in BOOLEAN
       /\ (last.caught => last.val.authorized = FALSE)

C4_Witness ==
  /\ last.op = "isAuthorized" /\ last.caught
  /\ initProviderPromise = "rejected"
  /\ last.branch = "relay"
  /\ last.val.authorized = FALSE

\* C5: with shimDisconnect set and the injected provider present when
\* isAuthorized() is called, isAuthorized() resolves with false whenever the
\* shim flag is absent from storage.
C5_NoFlagNotAuthorized ==
  (last.op = "isAuthorized" /\ ~last.resumed /\ shimDisconnect /\ ronin /\ ~shimFlag)
    => (last.status = "ok" /\ last.val.authorized = FALSE)

\* C6: a pairing-URI event makes the connector emit one message of type
\* display_uri whose data is the record {uri, mobile}, mobile being the
\* runtime's; on a runtime that is not mobile nothing is opened.
C6_DisplayUriPayloadIsStructured ==
  last.op = "onDisplayUri"
    => /\ Cardinality(DisplayUriEvents) = 1
       /\ \A i \in DisplayUriEvents : emitted[i].data = JSObject(last.uri, mobile)
       /\ (~mobile => ~Redirected)

\* C7: for a pairing-URI event with a non-empty URI exactly one of the two
\* happens: the page is redirected to the deep link, or the example UI
\* renders the URI as a code.
C7_RedirectXorRender ==
  (last.op = "onDisplayUri" /\ last.uri # "")
    => /\ Redirected # QrShown(ui.structured)
       /\ Redirected # QrShown(ui.bare)

\* C8: a transport failure whose message contains "user rejected", during
\* connect() or during switchChain() of a configured chain, reaches the caller
\* as UserRejectedRequestError with the original message.
C8_UserRejectedIsNormalized ==
  (/\ last.op \in {"connect", "switchChain"}
   /\ last.status = "error"
   /\ TestI(UserRejectedRe, last.err.msg))
    => last.err.cls = "UserRejectedRequestError"

\* C9: every disconnect() call, resolved or failed, has removed the relay
\* listeners and emptied the requested-chains record when it completes.
C9_DisconnectAlwaysCleansUp ==
  last.op = "disconnect" => (requestedChains = <<>> /\ ~relayListeners)

\* C10: right after a connect() call that failed the requested-chains record
\* is empty.
C10_FailedConnectLeavesEmptyRecord ==
  (last.op = "connect" /\ last.status = "error") => requestedChains = <<>>

\* the methods whose transport branch the claims speak of
Acquiring == {"getProvider", "connect", "disconnect", "getAccount", "getChainId"}
RequestMethods == {requests[i].method : i \in 1..Len(requests)}
EmittedNames == {emitted[i].name : i \in 1..Len(emitted)}

\* C11: after a call that acquired the provider, the transport branch is the
\* Injected one exactly when window.ronin was present during the call, and
\* the provider getProvider() returned is of that kind.
C11_TransportRedetectedOnAcquisition ==
  (last.op \in Acquiring /\ ~last.resumed)
    => /\ isExtension = ronin
       /\ (last.branch # "none" => ((last.branch = "injected") = ronin))
       /\ ((last.op = "getProvider" /\ last.status = "ok")
             => last.val.provider = IF ronin THEN "injected" ELSE "relay")

\* C12: a disconnect() that called the relay provider's disconnect resolves
\* when that call failed with a message matching "No matching key", rejects
\* with the transport's own error for any other failure, and has removed the
\* listeners and emptied the record in both cases.
C12_RelayDisconnectSwallowsNoMatchingKey ==
  (/\ last.op = "disconnect"
   /\ last.branch = "relay"
   /\ RequestMethods = {"disconnect"})
    => /\ last.caught => last.status = "ok"
       /\ last.status = "error"
            => /\ ~TestI(NoMatchingKeyRe, last.err.msg)
               /\ last.err \in {ProviderErr(m) : m \in Messages} \cup {NotConnectedErr}
       /\ requestedChains = <<>>
       /\ ~relayListeners

C12_Witness ==
  /\ last.op = "disconnect" /\ last.branch = "relay"
  /\ RequestMethods = {"disconnect"}
  /\ last.caught /\ last.status = "ok"
  /\ session.live

\* C13: a native event delivered to a subscribed handler makes the connector
\* emit exactly one unified event; an accountsChanged event that leaves the
\* transport without an account makes it emit one disconnect event.
Handlers == {"onAccountsChanged", "onChainChanged", "onDisconnect", "onDisplayUri", "onConnect"}
C13_OneUnifiedEventPerNativeEvent ==
  (last.op \in Handlers /\ last.err.cls # "ProviderRpcError")
    => /\ Len(emitted) = 1
       /\ EmittedNames \subseteq {"connect", "change", "disconnect", "message"}
       /\ ((last.op = "onAccountsChanged" /\ last.err = InvalidAddressErr)
             => emitted = <<DisconnectEvt>>)

\* C14: switchChain of a configured chain, once it holds a provider, issues
\* the chain-add request exactly when the chain is not among the live
\* session's chains and the session has the chain-add method; the chain-add
\* comes first, the id joins the record only when the chain-add succeeded, a
\* failed chain-add is followed by no chain-switch and leaves the record as
\* it was; without a chain-add there is exactly one chain-switch request.
MethodsOf(reqs) == [i \in 1..Len(reqs) |-> reqs[i].method]
C14_ChainAddPrecedesSwitch ==
  [][ (/\ last.op = "none" /\ last'.op = "switchChain"
       /\ last'.chainId \in ChainIdSet
       /\ last'.err.msg # InitErr.msg)
        => LET id == last'.chainId
               needed == /\ provider /\ session.live
                         /\ Caip(id) \notin session.chains
                         /\ ADD_ETH_CHAIN_METHOD \in session.methods
               m == MethodsOf(requests')
           IN  IF needed
               THEN \/ /\ m = <<ADD_ETH_CHAIN_METHOD>>
                       /\ last'.status = "error"
                       /\ requestedChains' = requestedChains
                    \/ /\ m = <<ADD_ETH_CHAIN_METHOD, SWITCH_ETH_CHAIN_METHOD>>
                       /\ requestedChains' = Append(requestedChains, id)
               ELSE /\ m = <<SWITCH_ETH_CHAIN_METHOD>>
                    /\ requestedChains' = requestedChains ]_vars

C14_Witness ==
  /\ last.op = "switchChain" /\ last.status = "ok" /\ last.chainId = SaigonId
  /\ MethodsOf(requests) = <<ADD_ETH_CHAIN_METHOD, SWITCH_ETH_CHAIN_METHOD>>
  /\ requestedChains = <<SaigonId>>

\* C15: no relay initialization is started on a connector instance before a
\* call on it has acquired the provider; constructing it starts none.
C15_InitializationIsLazy == ~acquired => initStarted = 0

C17_InjectedConnectOrder ==
  [][ (/\ last.op = "none" /\ last'.op = "connect" /\ last'.branch = "injected")
        => /\ Len(emitted') >= 1 /\ emitted'[1] = Connecting
           /\ Len(requests') >= 1
           /\ requests'[1].method = "eth_requestAccounts" /\ requests'[1].seen = 1
           /\ last'.status = "ok"
                => /\ shimFlag' = (shimDisconnect \/ shimFlag)
                   /\ emitted' = <<Connecting, ConnectEvt(last'.val)>>
           /\ last'.status = "error"
                => /\ shimFlag' = shimFlag
                   /\ \A i \in 1..Len(emitted') : emitted'[i].name # "connect"
           /\ \A i \in 1..Len(requests') :
                requests'[i].method \notin {ADD_ETH_CHAIN_METHOD, SWITCH_ETH_CHAIN_METHOD} ]_vars

C17_Witness ==
  /\ last.op = "connect" /\ last.branch = "injected" /\ last.status = "ok"
  /\ last.val.chain.unsupported
  /\ shimDisconnect /\ shimFlag
  /\ emitted = <<Connecting, ConnectEvt(last.val)>>

\* C18: a disconnect() that resolved has emitted change{account: undefined}
\* and then disconnect, on either transport.
C18_ResolvedDisconnectEmitsEvents ==
  (last.op = "disconnect" /\ last.status = "ok")
    => emitted = <<ChangeNoAccount, DisconnectEvt>>

\* C19: the persisted requested-chains record holds no chain id twice and
\* only ids of configured chains.
C19_RecordIsSetOfConfiguredChains ==
  /\ \A i, j \in 1..Len(requestedChains) : requestedChains[i] = requestedChains[j] => i = j
  /\ \A i \in 1..Len(requestedChains) : requestedChains[i] \in ChainIdSet

\* C20: after a connect() that failed no handler of the connector is
\* subscribed to transport events, neither on window.ronin.roninEvent nor on
\* the relay provider.
C20_FailedConnectLeavesNoListeners ==
  (last.op = "connect" /\ last.status = "error") => (~injListeners /\ ~relayListeners)

=============================================================================
